---------------------------- MODULE Spec2Model ----------------------------
(***************************************************************************)
(* A model of the interview-assessment scoring core:                       *)
(*   src/models/scoring_logic.py  is_non_relevant, compute_confidence_score*)
(*                                and score_with_rubric                    *)
(*   src/app.py                   the session state and the processing page*)
(*                                                                         *)
(* Python strings are sequences of one-character strings, so that strip,   *)
(* split, lower and the substring test act on characters as they do in the *)
(* code.  Floating-point quantities are fixed-point integers: a            *)
(* probability is counted in 1/10000, a score in 1/1000000 of a point.     *)
(***************************************************************************)
EXTENDS Integers, Sequences, FiniteSets, TLC

VARIABLES
    op,              \* the function called: "score" or "confidence"
    question_id,     \* its question_id argument
    transcript,      \* its answer / transcript argument
    transcript_md5,  \* hashlib.md5 of that transcript, as an integer mod Md5Modulus
    log_prob_raw,    \* its log_prob_raw argument
    rubric_data,     \* its rubric_data argument
    model_embedder,  \* its model_embedder argument
    result,          \* what the call returned, Pending until it has
    page,            \* st.session_state.page
    current_q,       \* st.session_state.current_q
    answers,         \* st.session_state.answers: question number -> uploaded file
    results,         \* st.session_state.results: None, or rubric key -> record
    cancelled,       \* the processing page stopped at its Back to Home button
    STT_MODEL        \* whether the speech-to-text model was loaded

callVars == <<op, question_id, transcript, transcript_md5, log_prob_raw,
              rubric_data, model_embedder, result>>

sessionVars == <<page, current_q, answers, results, cancelled>>

vars == <<callVars, sessionVars, STT_MODEL>>

-----------------------------------------------------------------------------
(* Python values *)

\* None where a str is expected; no text equals it, texts hold single characters.
NoneStr == <<"<None>">>

\* None where a question id (a str) is expected.
NoneId == "<None>"

Whitespace == {" ", "\n"}

\* a lone surrogate code point: one character of a str that str.encode() (UTF-8)
\* refuses with UnicodeEncodeError
Surrogate == "<U+D800>"

\* whether text.encode() returns
utf8_encodable(text) == \A i \in 1..Len(text) : text[i] # Surrogate

UpperToLower ==
    [c \in {"A","B","C","D","E","F","G","H","I","J","K","L","M","N","O","P","Q",
            "R","S","T","U","V","W","X","Y","Z"} |->
        CASE c = "A" -> "a" [] c = "B" -> "b" [] c = "C" -> "c" [] c = "D" -> "d"
          [] c = "E" -> "e" [] c = "F" -> "f" [] c = "G" -> "g" [] c = "H" -> "h"
          [] c = "I" -> "i" [] c = "J" -> "j" [] c = "K" -> "k" [] c = "L" -> "l"
          [] c = "M" -> "m" [] c = "N" -> "n" [] c = "O" -> "o" [] c = "P" -> "p"
          [] c = "Q" -> "q" [] c = "R" -> "r" [] c = "S" -> "s" [] c = "T" -> "t"
          [] c = "U" -> "u" [] c = "V" -> "v" [] c = "W" -> "w" [] c = "X" -> "x"
          [] c = "Y" -> "y" [] c = "Z" -> "z"]

\* str.lower()
lower(s) == [i \in 1..Len(s) |-> IF s[i] \in DOMAIN UpperToLower
                                 THEN UpperToLower[s[i]] ELSE s[i]]

RECURSIVE lstrip(_)
lstrip(s) == IF s # <<>> /\ Head(s) \in Whitespace THEN lstrip(Tail(s)) ELSE s

RECURSIVE rstrip(_)
rstrip(s) == IF s # <<>> /\ s[Len(s)] \in Whitespace
             THEN rstrip(SubSeq(s, 1, Len(s) - 1)) ELSE s

\* str.strip()
strip(s) == rstrip(lstrip(s))

\* the first word of a text that starts with a non-blank character
RECURSIVE firstWord(_)
firstWord(s) == IF s = <<>> \/ Head(s) \in Whitespace THEN <<>>
                ELSE <<Head(s)>> \o firstWord(Tail(s))

\* str.split(): the maximal runs of non-blank characters, in order
RECURSIVE split(_)
split(s) ==
    LET t == lstrip(s)
    IN  IF t = <<>> THEN <<>>
        ELSE LET w == firstWord(t)
             IN  <<w>> \o split(SubSeq(t, Len(w) + 1, Len(t)))

\* Python's  na in t  on strings
contains(t, na) ==
    \E i \in 1..(Len(t) - Len(na) + 1) : SubSeq(t, i, i + Len(na) - 1) = na

\* " ".join(words)
RECURSIVE join(_)
join(ws) == IF ws = <<>> THEN <<>>
            ELSE IF Len(ws) = 1 THEN ws[1]
            ELSE ws[1] \o <<" ">> \o join(Tail(ws))

Max(a, b) == IF a >= b THEN a ELSE b
Min(a, b) == IF a <= b THEN a ELSE b

-----------------------------------------------------------------------------
(* is_non_relevant *)

non_answers ==
    {  <<"i"," ","d","o","n","'","t"," ","k","n","o","w">>,
       <<"i"," ","d","o","n","t"," ","k","n","o","w">>,
       <<"n","o"," ","i","d","e","a">>,
       <<"i"," ","h","a","v","e"," ","n","o"," ","i","d","e","a">>,
       <<"n","o","t"," ","s","u","r","e">>,
       <<"i"," ","c","a","n","'","t"," ","a","n","s","w","e","r">>,
       <<"i"," ","c","a","n","n","o","t"," ","a","n","s","w","e","r">>,
       <<"i"," ","d","o","n","'","t"," ","u","n","d","e","r","s","t","a","n","d">>,
       <<"i"," ","d","o","n","t"," ","u","n","d","e","r","s","t","a","n","d">>  }

\* len(words) <= 2: a very short transcript
ShortTranscriptWords == 2

is_non_relevant(text) ==
    IF text = NoneStr \/ text = <<>> THEN TRUE
    ELSE LET t == lower(strip(text))
         IN  \/ Len(t) = 0
             \/ Len(split(t)) <= ShortTranscriptWords
             \/ \E na \in non_answers : contains(t, na)


-----------------------------------------------------------------------------
(* compute_confidence_score *)

\* log_prob_raw: a float counted in 1/1000, or None
NoneFloat == [isNone |-> TRUE, milli |-> 0]
Float(m) == [isNone |-> FALSE, milli |-> m]

\* np.exp(x) for the non-positive acoustic values of the model, in 1/10000
\* (exp(-3) = 0.0498, exp(-0.5) = 0.6065, exp(-0.05) = 0.9512, exp(0) = 1)
np_exp == (-3000 :> 498) @@ (-500 :> 6065) @@ (-50 :> 9512) @@ (0 :> 10000)

\* probability, in 1/10000: the value itself when positive, else its exponential
probability(log_prob) ==
    IF log_prob.milli > 0 THEN log_prob.milli * 10 ELSE np_exp[log_prob.milli]

\* target_confidences with the value of q1 given to q2 as well
target_confidences_q2_as_q1 ==
    ("q1" :> 58) @@ ("q2" :> 58) @@ ("q3" :> 40) @@ ("q4" :> 49) @@ ("q5" :> 34)

target_confidences ==
    ("q1" :> 58) @@ ("q2" :> 50) @@ ("q3" :> 40) @@ ("q4" :> 49) @@ ("q5" :> 34)

fallback_map ==
    ("q1" :> 58) @@ ("q2" :> 50) @@ ("q3" :> 40) @@ ("q4" :> 49) @@ ("q5" :> 34) @@
    ("q6" :> 65) @@ ("q7" :> 72) @@ ("q8" :> 55) @@ ("q9" :> 60) @@ ("q10" :> 45)

\* int(hashlib.md5(question_id.encode()).hexdigest(), 16) % 100, the digests
\* themselves being those hashlib gives for these ids
md5_mod100_of_id ==
    ("q1" :> 22) @@ ("q2" :> 47) @@ ("q3" :> 57) @@ ("q4" :> 78) @@ ("q5" :> 25) @@
    ("q6" :> 57) @@ ("q7" :> 5) @@ ("q8" :> 22) @@ ("q9" :> 35) @@ ("q10" :> 20) @@
    ("q11" :> 38)

\* The transcript's digest is kept modulo 5100, which decides both of its uses:
\* hash % 100 in the adjustment and hash % 51 in the fallback.
Md5Modulus == 100 * 51

\* length_factor, in tenths
length_factor(word_count) ==
    IF word_count >= 40 THEN 13
    ELSE IF word_count >= 30 THEN 12
    ELSE IF word_count >= 20 THEN 11
    ELSE IF word_count >= 10 THEN 10
    ELSE IF word_count >= 5 THEN 9
    ELSE 7

RECURSIVE sum_len(_)
sum_len(words) == IF words = <<>> THEN 0 ELSE Len(Head(words)) + sum_len(Tail(words))

\* complexity_factor, in tenths; avg_word_length = sum_len / max(1, word_count)
\* and diversity_ratio = len(set(words)) / max(1, word_count) compared exactly
complexity_factor(words) ==
    LET word_count == Len(words)
        d          == Max(1, word_count)
        unique     == Cardinality({words[i] : i \in 1..word_count})
    IN  IF 10 * unique > 7 * d /\ sum_len(words) > 5 * d THEN 12
        ELSE IF 10 * unique > 6 * d THEN 11
        ELSE IF 10 * unique > 5 * d THEN 10
        ELSE 9

\* question_adjustment, -10 to +10
question_adjustment(qid, text_md5) ==
    LET question_hash == IF qid # NoneId /\ qid # ""
                         THEN md5_mod100_of_id[qid]
                         ELSE text_md5 % 100
    IN  (question_hash % 21) - 10

filler_words ==
    { <<"u","m">>, <<"u","h">>, <<"e","r">>, <<"a","h">>, <<"l","i","k","e">>,
      <<"y","o","u"," ","k","n","o","w">>, <<"s","o">>, <<"w","e","l","l">> }

filler_count(words) ==
    Cardinality({i \in 1..Len(words) : lower(words[i]) \in filler_words})

filler_penalty(words) == Min(15, filler_count(words) * 3)

\* one point of the final score, in the unit of the fixed-point sum
Point == 1000 * 1000

\* ensure_bounds with the upper bound forgotten
ensure_bounds_no_cap(final_score) == Max(0, final_score)

\* max(0.0, min(100.0, final_score))
ensure_bounds(final_score) == Max(0, Min(100 * Point, final_score))

\* int(round(x)) for x >= 0: to the nearest integer, a tie to the even one
int_round(x) ==
    LET q == x \div Point
        r == x % Point
    IN  IF 2 * r > Point THEN q + 1
        ELSE IF 2 * r < Point THEN q
        ELSE IF q % 2 = 0 THEN q ELSE q + 1

\* STRATEGI 2: base * length * complexity + question_adjustment - penalty
dynamic_confidence(text, log_prob, qid, text_md5) ==
    LET words           == split(text)
        base_confidence == probability(log_prob) * 100
        intermediate    == base_confidence * length_factor(Len(words))
                                           * complexity_factor(words)
        final_score     == intermediate
                           + (question_adjustment(qid, text_md5)
                              - filler_penalty(words)) * Point
    IN  int_round(ensure_bounds(final_score))

\* STRATEGI 3: the except branch
fallback_confidence(text, qid, text_md5) ==
    IF qid # NoneId /\ qid # "" /\ qid \in DOMAIN fallback_map THEN fallback_map[qid]
    ELSE IF text # <<>> THEN 30 + (text_md5 % 51)
    ELSE 50

\* the try block raises when log_prob_raw cannot be compared with 0, and when,
\* for want of a question id, it hashes a transcript that cannot be encoded
raises_in_try(text, log_prob, qid) ==
    \/ log_prob.isNone
    \/ (qid = NoneId \/ qid = "") /\ ~utf8_encodable(text)

\* the except branch raises in its turn when it hashes such a transcript
fallback_raises(text, qid) ==
    /\ ~(qid # NoneId /\ qid # "" /\ qid \in DOMAIN fallback_map)
    /\ text # <<>>
    /\ ~utf8_encodable(text)

\* the call gets past the gate and the per-question constants into the try block
reaches_calculation(text, qid) ==
    /\ ~(text = NoneStr \/ text = <<>> \/ is_non_relevant(text))
    /\ ~(qid # NoneId /\ qid # "" /\ qid \in DOMAIN target_confidences)

\* the call ends with an exception instead of a value
confidence_raises(text, log_prob, qid) ==
    /\ reaches_calculation(text, qid)
    /\ raises_in_try(text, log_prob, qid)
    /\ fallback_raises(text, qid)

\* the value the call returns, when it returns
compute_confidence_score(text, log_prob, qid, text_md5) ==
    IF text = NoneStr \/ text = <<>> \/ is_non_relevant(text) THEN 0
    ELSE IF qid # NoneId /\ qid # "" /\ qid \in DOMAIN target_confidences
         THEN target_confidences[qid]
    ELSE IF raises_in_try(text, log_prob, qid)
         THEN fallback_confidence(text, qid, text_md5)
    ELSE dynamic_confidence(text, log_prob, qid, text_md5)

-----------------------------------------------------------------------------
(* score_with_rubric *)

MIN_LENGTH_FOR_SCORE == 5

\* the empty dict {}
EmptyDict == [key \in {} |-> key]

\* dict.get(key, default)
dict_get(d, key, default) == IF key \in DOMAIN d THEN d[key] ELSE default

\* hits count an indicator whose similarity, in hundredths, is at least 0.40
SimThreshold == 40

\* count_matches: 0 for no indicators and 0 when encoding the indicators raises
\* (the except inside count_matches), else the indicators similar enough
count_matches(indicators, embedder) ==
    IF indicators = <<>> THEN 0
    ELSE IF embedder.kind = "encode_list_raises" THEN 0
    ELSE Cardinality({i \in 1..Len(indicators) :
                        embedder.sim[indicators[i]] >= SimThreshold})

\* min_hits with the thresholds of tiers 4 and 3 doubled
min_hits_doubled(point, n) ==
    IF point = 4 THEN Max(1, 2 * ((n * 6) \div 10))
    ELSE IF point = 3 THEN Max(1, 2 * ((n * 5) \div 10))
    ELSE 1

\* int(len(indicators) * 0.6) and int(len(indicators) * 0.5): the product cut to
\* an integer
min_hits(point, n) ==
    IF point = 4 THEN Max(1, (n * 6) \div 10)
    ELSE IF point = 3 THEN Max(1, (n * 5) \div 10)
    ELSE 1

PointStr == (4 :> "4") @@ (3 :> "3") @@ (2 :> "2") @@ (1 :> "1")

\* matched_points with the loop left at the first point without indicators
\* (break for continue)
matched_points_stops_at_empty(rubric) ==
    {point \in DOMAIN PointStr :
        \A above \in point..4 : dict_get(rubric, PointStr[above], <<>>) # <<>>}

\* the points the voting loop keeps in match_results: those with indicators
matched_points(rubric) ==
    {point \in DOMAIN PointStr : dict_get(rubric, PointStr[point], <<>>) # <<>>}

passed(rubric, embedder, point) ==
    LET indicators == rubric[PointStr[point]]
    IN  count_matches(indicators, embedder) >= min_hits(point, Len(indicators))

RECURSIVE sum_of(_)
sum_of(S) == IF S = {} THEN 0 ELSE LET x == CHOOSE y \in S : TRUE IN x + sum_of(S \ {x})

\* final_score with the points that passed added up instead of the loop
\* stopping at the highest
final_score_added_up(rubric, embedder) ==
    LET ok == {point \in matched_points(rubric) : passed(rubric, embedder, point)}
    IN  IF ok = {} THEN 1 ELSE sum_of(ok)

\* the highest point that passed, 1 when none did
final_score(rubric, embedder) ==
    LET ok == {point \in matched_points(rubric) : passed(rubric, embedder, point)}
    IN  IF ok = {} THEN 1 ELSE CHOOSE point \in ok : \A other \in ok : other <= point

target_scores == ("q1" :> 3) @@ ("q2" :> 3) @@ ("q3" :> 2) @@ ("q4" :> 4) @@ ("q5" :> 3)

score_reasons ==
    (4 :> "Excellent answer with comprehensive details and clear structure.") @@
    (3 :> "Good answer with relevant content and adequate explanation.") @@
    (2 :> "Adequate answer but lacks depth or specificity.") @@
    (1 :> "Minimal or vague response with limited relevance.") @@
    (0 :> "Unanswered or non-relevant response.")

reasons_by_score ==
    (4 :> << "Excellent demonstration of knowledge with specific examples and clear structure.",
             "Comprehensive answer covering all key aspects with depth and clarity.",
             "Outstanding response showing mastery of the subject with practical insights." >>) @@
    (3 :> << "Good answer demonstrating understanding with relevant examples.",
             "Solid response covering main points adequately.",
             "Competent answer showing practical knowledge of the topic." >>) @@
    (2 :> << "Basic understanding shown but lacks depth or specific details.",
             "Adequate response but could benefit from more elaboration.",
             "Covers the topic superficially without deeper analysis." >>) @@
    (1 :> << "Minimal response with limited demonstration of knowledge.",
             "Vague answer that touches on the topic without substance.",
             "Response shows very basic understanding of the subject." >>)

\* what random.choice may draw: an index into a list of three reasons
RandomDraws == 1..3

Returned(score, reason) ==
    [pending |-> FALSE, raised |-> FALSE, score |-> score, reason |-> reason]

Raised(exception) == [pending |-> FALSE, raised |-> TRUE, exception |-> exception]

\* the rubric of a question: rubric_data.get(question_id, {}).get("ideal_points", {})
rubric_of(data, qid) ==
    dict_get(dict_get(data, qid, EmptyDict), "ideal_points", EmptyDict)

\* the relevance and length gate
gated(a) == is_non_relevant(a) \/ Len(split(a)) < MIN_LENGTH_FOR_SCORE

\* the try block, after the answer was encoded: the demo scores, then the voting
scored(qid, rubric, embedder, draw) ==
    IF qid \in DOMAIN target_scores
    THEN Returned(target_scores[qid], score_reasons[target_scores[qid]])
    ELSE LET final == final_score(rubric, embedder)
         IN  Returned(final, IF final \in DOMAIN reasons_by_score
                             THEN reasons_by_score[final][draw]
                             ELSE "Score achieved based on evaluation.")

score_with_rubric(qid, answer, data, embedder, draw) ==
    IF embedder.kind = "none"
    THEN Returned(0, "Error: Embedding model failed to load.")
    ELSE LET rubric == rubric_of(data, qid)
         IN  IF DOMAIN rubric = {}
             THEN Returned(3, "No rubric available for this question.")
             ELSE IF answer = NoneStr THEN Raised("AttributeError")
             ELSE LET a == strip(answer)
                  IN  IF gated(a)
                      THEN LET zero == dict_get(rubric, "0", <<"Unanswered">>)
                           IN  IF zero = <<>> THEN Raised("IndexError")
                               ELSE Returned(0, zero[1])
                      ELSE IF embedder.kind = "encode_text_raises"
                           THEN Returned(1, "Error in scoring: encode failed")
                           ELSE scored(qid, rubric, embedder, draw)

-----------------------------------------------------------------------------
(* The inputs of the calls *)

w_yes      == <<"y","e","s">>
w_it       == <<"i","t">>
w_works    == <<"w","o","r","k","s">>
w_I        == <<"I">>
w_DONT     == <<"D","O","N","T">>
w_know     == <<"k","n","o","w">>
w_piano    == <<"p","i","a","n","o">>
w_ideas    == <<"i","d","e","a","s">>
w_um       == <<"u","m">>
w_Like     == <<"L","i","k","e">>
w_you      == <<"y","o","u">>
w_team     == <<"t","e","a","m">>
w_skill    == <<"s","k","i","l","l">>

Digit == <<"0","1","2","3","4","5","6","7","8","9">>

\* How a transcript is begun: nothing, too few words, a three-word answer, a
\* non-answer phrase in capitals, "no idea" across two words, filler words.
Heads ==
    { <<>>,
      <<w_yes, w_it>>,
      <<w_yes, w_it, w_works>>,
      <<w_I, w_DONT, w_know>>,
      <<w_piano, w_ideas, w_works>>,
      <<w_um, w_Like, w_you, w_know>> }

\* How it is continued: the same word again and again, or words all different
PadStyles == {"same", "different"}

\* The continuation is a number of blocks of PadStep words, so that the word
\* counts reach every bucket of length_factor (5, 10, 20, 30 and 40 words).
PadStep == 5
MaxPadSteps == 8

RECURSIVE pad(_, _)
pad(style, n) ==
    IF n = 0 THEN <<>>
    ELSE pad(style, n - 1) \o
         << IF style = "same" THEN w_team
            ELSE w_skill \o <<Digit[(n \div 10) + 1], Digit[(n % 10) + 1]>> >>

Transcripts ==
    { join(h \o pad(s, k * PadStep)) : h \in Heads, s \in PadStyles, k \in 0..MaxPadSteps }
    \cup { NoneStr, <<" ", "\n">>,
           <<" ">> \o join(<<w_yes, w_it, w_works, w_team, w_skill>>) \o <<"\n">>,
           join(<<w_yes, <<Surrogate>>, w_works, w_team>>),
           join(<<w_yes, <<Surrogate>>, w_works>> \o pad("different", 2 * PadStep)) }

\* digests of a transcript, modulo Md5Modulus
Md5Residues == {0, 20, Md5Modulus - 1}

AcousticValues == {NoneFloat} \cup {Float(m) : m \in DOMAIN np_exp \cup {950, 1500}}

QuestionIds == {NoneId, "q1", "q2", "q3", "q4", "q5", "q6", "q11"}

\* the answers given to score_with_rubric: one of each kind the gate tells apart
Answers ==
    { NoneStr,
      <<>>,
      join(<<w_yes, w_it, w_works>>),
      join(<<w_I, w_DONT, w_know>> \o pad("same", 4)),
      join(<<w_yes, w_it, w_works, w_team>>),
      <<" ">> \o join(<<w_yes, w_it, w_works, w_team, w_skill>>) \o <<"\n">> }

\* the ids given to score_with_rubric; the rubric data never holds "q11"
ScoredIds == {"q4", "q6", "q11"}
RubricIds == {"q4", "q6"}

\* Two indicator phrases; an embedder places the first nearer to the answer
Indicators == <<"used the STAR method", "reached a clear resolution">>

\* the similarities an embedder gives the two phrases, in hundredths
SimProfiles ==
    { (Indicators[1] :> 80) @@ (Indicators[2] :> 10),
      (Indicators[1] :> 40) @@ (Indicators[2] :> 39) }

\* no embedder (None), one that works, one whose encode raises on the answer
\* and one whose encode raises on a list of indicators
Embedders ==
    { [kind |-> "none", sim |-> EmptyDict] }
    \cup { [kind |-> "ok", sim |-> p] : p \in SimProfiles }
    \cup { [kind |-> k, sim |-> CHOOSE p \in SimProfiles : p[Indicators[1]] = 80] :
             k \in {"encode_text_raises", "encode_list_raises"} }

\* the most indicators a tier lists
MaxIndicators == 3

\* n indicators of which the first k are the nearer phrase
indicator_list(n, k) ==
    [i \in 1..n |-> IF i <= k THEN Indicators[1] ELSE Indicators[2]]

\* a tier the rubric does not list
Absent == <<"<absent>">>

VotedTierChoices ==
    {Absent} \cup
    UNION { {indicator_list(n, k) : k \in 0..n} : n \in 0..MaxIndicators }

LowTierChoices == {Absent, indicator_list(1, 0), indicator_list(1, 1)}

ZeroTierChoices == {Absent, <<>>, <<"No answer was given.">>}

\* the rubric listing the chosen tiers
rubric_with(c) ==
    [t \in {u \in DOMAIN c : c[u] # Absent} |-> c[t]]

Rubrics ==
    { rubric_with(("4" :> c4) @@ ("3" :> c3) @@ ("2" :> c2) @@ ("1" :> c1) @@ ("0" :> c0)) :
        c4 \in VotedTierChoices, c3 \in VotedTierChoices,
        c2 \in LowTierChoices, c1 \in LowTierChoices, c0 \in ZeroTierChoices }

\* rubric data holding the same rubric for every id it lists, and the data
\* whose entries have no "ideal_points"
RubricDatas ==
    { [q \in RubricIds |-> [ideal_points |-> r]] : r \in Rubrics }
    \cup { [q \in RubricIds |-> [rubric |-> <<"STAR method used, clear resolution.">>]] }

NoRubricData == EmptyDict
NoEmbedder == [kind |-> "none", sim |-> EmptyDict]

-----------------------------------------------------------------------------
(* The text normaliser.  Its code (transcribe_and_clean and what it calls) is  *)
(* not in src/: the stages below are those of the specification, section 4.1. *)
(* The vocabularies the stages consult are not listed there; the ones below   *)
(* hold the fillers the specification names and a few words to stand for the  *)
(* dictionary, the phrase mapping and the domain terms.                       *)

t_um        == <<"u","m">>
t_like      == <<"l","i","k","e">>
t_liek      == <<"l","i","e","k">>
t_the       == <<"t","h","e">>
t_teh       == <<"t","e","h">>
t_tensor    == <<"t","e","n","s","o","r">>
t_flow      == <<"f","l","o","w">>
t_tensorflow == t_tensor \o t_flow
t_tensorflo == <<"t","e","n","s","o","r","f","l","o">>
t_u_dot_m   == <<"u",".","m">>

\* stage 1: the fixed filler vocabulary ("um", "like")
FillerVocabulary == {t_um, t_like}

Punctuation == {".", ","}

is_word_char(c) == c \notin Whitespace /\ c \notin Punctuation

\* the run of word characters a text starts with
RECURSIVE word_run(_)
word_run(s) == IF s = <<>> \/ ~is_word_char(Head(s)) THEN <<>>
               ELSE <<Head(s)>> \o word_run(Tail(s))

\* stage 1: delete the standalone filler tokens, whole words only
RECURSIVE filler_removal(_)
filler_removal(s) ==
    IF s = <<>> THEN <<>>
    ELSE IF is_word_char(Head(s))
         THEN LET w == word_run(s)
              IN  (IF w \in FillerVocabulary THEN <<>> ELSE w)
                  \o filler_removal(SubSeq(s, Len(w) + 1, Len(s)))
         ELSE <<Head(s)>> \o filler_removal(Tail(s))

not_punctuation(c) == c \notin Punctuation

\* stage 2: strip the punctuation, collapse the runs of whitespace, trim
punctuation_whitespace(s) == join(split(SelectSeq(s, not_punctuation)))

\* stage 3: the mapping of known mis-transcribed phrases to their corrections
PhraseCorrections == (<<t_tensor, t_flow>> :> <<t_tensorflow>>)

RECURSIVE phrase_correction(_)
phrase_correction(tokens) ==
    IF tokens = <<>> THEN <<>>
    ELSE IF Len(tokens) >= 2 /\ SubSeq(tokens, 1, 2) \in DOMAIN PhraseCorrections
         THEN PhraseCorrections[SubSeq(tokens, 1, 2)]
              \o phrase_correction(SubSeq(tokens, 3, Len(tokens)))
         ELSE <<Head(tokens)>> \o phrase_correction(Tail(tokens))

\* stage 4: the dictionary, and the best dictionary correction of a misspelling
Dictionary == {t_um, t_like, t_the, w_yes, w_it, w_works, t_tensor, t_flow}

SpellingCorrections == (t_liek :> t_like) @@ (t_teh :> t_the)

\* stage 5: the domain terms, and the closest one within edit distance 3
DomainTerms == {t_tensorflow}

DomainCorrections == (t_tensorflo :> t_tensorflow)

domain_term_correction(token) ==
    IF token \in DOMAIN DomainCorrections THEN DomainCorrections[token] ELSE token

\* stages 4 and 5 on one token
word_correction(token) ==
    IF token \in Dictionary THEN token
    ELSE IF token \in DOMAIN SpellingCorrections THEN SpellingCorrections[token]
    ELSE domain_term_correction(token)

\* stage 6, optional: without the similarity capability it changes nothing
context_outlier_correction(tokens) == tokens

\* stage 7: of each run of equal consecutive tokens keep the first
RECURSIVE duplicate_collapse(_)
duplicate_collapse(tokens) ==
    IF Len(tokens) <= 1 THEN tokens
    ELSE IF tokens[1] = tokens[2] THEN duplicate_collapse(Tail(tokens))
    ELSE <<Head(tokens)>> \o duplicate_collapse(Tail(tokens))

\* the pipeline: the stages in their order
normalize(raw) ==
    LET cleaned   == punctuation_whitespace(filler_removal(raw))
        phrased   == phrase_correction(split(cleaned))
        corrected == [i \in 1..Len(phrased) |-> word_correction(phrased[i])]
    IN  join(duplicate_collapse(context_outlier_correction(corrected)))

\* The raw transcripts given to the normaliser: up to MaxRawTokens tokens,
\* some with punctuation attached, separated by single blanks.
RawTokens ==
    { t_um, t_like, t_liek, t_the, t_teh, w_yes, t_tensor, t_flow, t_tensorflo,
      t_um \o <<",">>, w_yes \o <<".">>, t_u_dot_m }

MaxRawTokens == 3

RawTranscripts ==
    { join(ts) : ts \in UNION { [1..n -> RawTokens] : n \in 0..MaxRawTokens } }

-----------------------------------------------------------------------------
(* The session of src/app.py *)

TOTAL_QUESTIONS == 5

\* str(i), the key of an answer, and f'q{i}', the key of a rubric and of a record
q_id_str(i) == <<"1", "2", "3", "4", "5", "6", "7", "8", "9">>[i]
q_key_rubric(i) == <<"q1", "q2", "q3", "q4", "q5", "q6", "q7", "q8", "q9">>[i]

\* st.session_state.results = None
NoneResults == [isNone |-> TRUE, records |-> EmptyDict]
Results(records) == [isNone |-> FALSE, records |-> records]

\* "Initialize Session State", which also follows st.session_state.clear()
SessionInit ==
    /\ page = "home"
    /\ current_q = 1
    /\ answers = EmptyDict
    /\ results = NoneResults
    /\ cancelled = FALSE

\* f"{x:.2f}" of an integer x: its digits, a point and two zeros
format_2f(x) == [units |-> x, hundredths |-> 0]

\* What transcribe_and_clean hands back for one question: a transcript with its
\* digest and an acoustic value, or an exception.
STTOutcomes ==
    { [raises |-> FALSE, transcript |-> <<" ">> \o join(<<w_yes, w_it, w_works, w_team, w_skill>>) \o <<"\n">>,
       md5 |-> 20, log_prob_raw |-> Float(-50)],
      [raises |-> FALSE, transcript |-> join(<<w_I, w_DONT, w_know>> \o pad("same", 4)),
       md5 |-> 0, log_prob_raw |-> Float(-500)],
      [raises |-> FALSE, transcript |-> join(pad("different", 2 * PadStep)),
       md5 |-> Md5Modulus - 1, log_prob_raw |-> NoneFloat],
      [raises |-> TRUE, transcript |-> NoneStr, md5 |-> 0, log_prob_raw |-> NoneFloat] }

\* the questions whose score_with_rubric call may reach random.choice
DrawnQuestions ==
    {i \in 1..TOTAL_QUESTIONS : q_key_rubric(i) \notin DOMAIN target_scores}

\* One turn of the loop of render_processing_page for a question that has an
\* answer and a rubric entry: the record stored under its key, or a failure.
question_record(i, stt, draw) ==
    IF stt.raises \/ confidence_raises(stt.transcript, stt.log_prob_raw, NoneId)
    THEN [failed |-> TRUE]
    ELSE LET final_confidence_score ==
                 compute_confidence_score(stt.transcript, stt.log_prob_raw,
                                          NoneId, stt.md5)
             scored_ == score_with_rubric(q_key_rubric(i), stt.transcript,
                                          rubric_data, model_embedder, draw)
         IN  IF scored_.raised THEN [failed |-> TRUE]
             ELSE [failed           |-> FALSE,
                   transcript       |-> stt.transcript,
                   final_score      |-> scored_.score,
                   rubric_reason    |-> scored_.reason,
                   confidence_score |-> format_2f(final_confidence_score * 100)]

\* the questions the loop processes: video_file and q_key_rubric in RUBRIC_DATA
processed(i) ==
    /\ q_id_str(i) \in DOMAIN answers
    /\ q_key_rubric(i) \in DOMAIN rubric_data

-----------------------------------------------------------------------------
(* The pages *)

\* "Start Interview Now" on the home page
StartInterview ==
    /\ page = "home"
    /\ answers' = EmptyDict
    /\ results' = NoneResults
    /\ current_q' = 1
    /\ page' = "interview"
    /\ UNCHANGED <<cancelled, callVars, STT_MODEL>>

\* the file uploader of the interview page; a file over the limit is refused
UploadVideo ==
    /\ page = "interview"
    /\ q_id_str(current_q) \notin DOMAIN answers
    /\ \E uploaded_file \in {"answer.mp4", "oversized.mp4"} :
          answers' = IF uploaded_file = "oversized.mp4" THEN answers
                     ELSE (q_id_str(current_q) :> uploaded_file) @@ answers
    /\ UNCHANGED <<page, current_q, results, cancelled, callVars, STT_MODEL>>

DeleteVideo ==
    /\ page = "interview"
    /\ q_id_str(current_q) \in DOMAIN answers
    /\ answers' = [k \in DOMAIN answers \ {q_id_str(current_q)} |-> answers[k]]
    /\ UNCHANGED <<page, current_q, results, cancelled, callVars, STT_MODEL>>

\* is_ready: the current question has an answer
is_ready == q_id_str(current_q) \in DOMAIN answers

\* NextQuestion with the button enabled whether or not the question is answered
NextQuestion_without_ready ==
    /\ page = "interview"
    /\ current_q < TOTAL_QUESTIONS
    /\ current_q' = current_q + 1
    /\ UNCHANGED <<page, answers, results, cancelled, callVars, STT_MODEL>>

\* NextQuestion with the button offered on the last question too
NextQuestion_past_last ==
    /\ page = "interview"
    /\ is_ready
    /\ current_q' = current_q + 1
    /\ UNCHANGED <<page, answers, results, cancelled, callVars, STT_MODEL>>

NextQuestion ==
    /\ page = "interview"
    /\ current_q < TOTAL_QUESTIONS
    /\ is_ready
    /\ current_q' = current_q + 1
    /\ UNCHANGED <<page, answers, results, cancelled, callVars, STT_MODEL>>

FinishAndProcess ==
    /\ page = "interview"
    /\ current_q = TOTAL_QUESTIONS
    /\ is_ready
    /\ page' = "processing"
    /\ UNCHANGED <<current_q, answers, results, cancelled, callVars, STT_MODEL>>

PreviousQuestion ==
    /\ page = "interview"
    /\ current_q > 1
    /\ current_q' = current_q - 1
    /\ UNCHANGED <<page, answers, results, cancelled, callVars, STT_MODEL>>

\* processing with the records made before the exception stored
processing_keeps_partial(stt, draw) ==
    LET todo == {i \in 1..TOTAL_QUESTIONS : processed(i)}
        rec(i) == question_record(i, stt[i],
                                  IF i \in DrawnQuestions THEN draw[i] ELSE 1)
        before == {i \in todo : \A j \in todo : j <= i => ~rec(j).failed}
    IN  [failed  |-> FALSE,
         records |-> [k \in {q_key_rubric(i) : i \in before} |->
                        LET i == CHOOSE j \in before : q_key_rubric(j) = k
                        IN  rec(i)]]

\* the loop of render_processing_page over the questions, given what
\* transcribe_and_clean and random.choice yield: the records, or a failure
processing(stt, draw) ==
    LET todo == {i \in 1..TOTAL_QUESTIONS : processed(i)}
        rec(i) == question_record(i, stt[i],
                                  IF i \in DrawnQuestions THEN draw[i] ELSE 1)
    IN  IF \E i \in todo : rec(i).failed
        THEN [failed |-> TRUE]
        ELSE [failed  |-> FALSE,
              records |-> [k \in {q_key_rubric(i) : i \in todo} |->
                             LET i == CHOOSE j \in todo : q_key_rubric(j) = k
                             IN  rec(i)]]

core_models_loaded == STT_MODEL /\ model_embedder.kind # "none"

\* st.session_state.clear() and next_page('home'); the rerun initialises the rest
ClearToHome ==
    /\ page' = "home"
    /\ current_q' = 1
    /\ answers' = EmptyDict
    /\ results' = NoneResults
    /\ cancelled' = FALSE

\* render_processing_page, run when the page is entered.  Results already
\* stored lead on to the summary.  With no results yet, either the core models
\* are missing and the page stops at its Back to Home button, or every
\* question is processed: the records are stored and the summary follows, or
\* an exception cancels, leaving results None and the button.
RenderProcessingPage ==
    /\ page = "processing"
    /\ ~cancelled
    /\ IF ~results.isNone
       THEN /\ page' = IF DOMAIN results.records # {} THEN "final_summary" ELSE page
            /\ UNCHANGED <<results, cancelled>>
       ELSE IF ~core_models_loaded
       THEN /\ cancelled' = TRUE
            /\ UNCHANGED <<page, results>>
       ELSE \E stt \in [1..TOTAL_QUESTIONS -> STTOutcomes],
               draw \in [DrawnQuestions -> RandomDraws] :
               LET done == processing(stt, draw)
               IN  IF done.failed
                   THEN /\ results' = NoneResults
                        /\ cancelled' = TRUE
                        /\ page' = page
                   ELSE /\ results' = Results(done.records)
                        /\ cancelled' = FALSE
                        /\ page' = "final_summary"
    /\ UNCHANGED <<current_q, answers, callVars, STT_MODEL>>

\* A click on the Back to Home button of the processing page.  The click reruns
\* the page: the button is reached again, and clears the session, only if the
\* models are still missing or the processing is cancelled again.
ProcessingBackToHome ==
    /\ page = "processing"
    /\ cancelled
    /\ IF ~core_models_loaded
       THEN ClearToHome
       ELSE \E stt \in [1..TOTAL_QUESTIONS -> STTOutcomes],
               draw \in [DrawnQuestions -> RandomDraws] :
               LET done == processing(stt, draw)
               IN  IF done.failed
                   THEN ClearToHome
                   ELSE /\ results' = Results(done.records)
                        /\ cancelled' = FALSE
                        /\ page' = "final_summary"
                        /\ UNCHANGED <<current_q, answers>>
    /\ UNCHANGED <<callVars, STT_MODEL>>

\* "New Interview" on the final summary: st.session_state.clear()
NewInterview ==
    /\ page = "final_summary"
    /\ ~results.isNone /\ DOMAIN results.records # {}
    /\ ClearToHome
    /\ UNCHANGED <<callVars, STT_MODEL>>

\* SummaryBackToHome with the results dropped on the way
SummaryBackToHome_drops_results ==
    /\ page = "final_summary"
    /\ page' = "home"
    /\ results' = NoneResults
    /\ UNCHANGED <<current_q, answers, cancelled, callVars, STT_MODEL>>

\* "Back to Home" on the final summary, with or without results
SummaryBackToHome ==
    /\ page = "final_summary"
    /\ page' = "home"
    /\ UNCHANGED <<current_q, answers, results, cancelled, callVars, STT_MODEL>>

-----------------------------------------------------------------------------
(* The calls *)

\* the result of a call that has not returned yet
Pending == [pending |-> TRUE]

\* A call of compute_confidence_score(transcript, log_prob_raw, question_id)
\* about to be made.
InitConfidence ==
    /\ op = "confidence"
    /\ transcript \in Transcripts
    /\ transcript_md5 \in Md5Residues
    /\ log_prob_raw \in AcousticValues
    /\ question_id \in QuestionIds
    /\ rubric_data = NoRubricData
    /\ model_embedder = NoEmbedder
    /\ result = Pending

\* A call of score_with_rubric(question_id, question_text, answer, rubric_data,
\* model_embedder) about to be made.
InitScore ==
    /\ op = "score"
    /\ transcript \in Answers
    /\ transcript_md5 = 0
    /\ log_prob_raw = NoneFloat
    /\ question_id \in ScoredIds
    /\ rubric_data \in RubricDatas
    /\ model_embedder \in Embedders
    /\ result = Pending

\* A raw transcript about to be normalised.
InitNormalize ==
    /\ op = "normalize"
    /\ transcript \in RawTranscripts
    /\ transcript_md5 = 0
    /\ log_prob_raw = NoneFloat
    /\ question_id = NoneId
    /\ rubric_data = NoRubricData
    /\ model_embedder = NoEmbedder
    /\ result = Pending

Init ==
    /\ InitScore \/ InitConfidence \/ InitNormalize
    /\ SessionInit
    /\ STT_MODEL = TRUE

\* ScoreCall with the tier-0 entry taken out of the rubric as it is read
\* (rubric.pop("0", ...) for rubric.get("0", ...))
ScoreCall_pops_tier_zero ==
    /\ op = "score"
    /\ result = Pending
    /\ \E draw \in RandomDraws :
          result' = score_with_rubric(question_id, transcript, rubric_data,
                                      model_embedder, draw)
    /\ rubric_data' =
          LET rubric == rubric_of(rubric_data, question_id)
          IN  IF DOMAIN rubric = {} THEN rubric_data
              ELSE [rubric_data EXCEPT ![question_id].ideal_points =
                       [t \in DOMAIN rubric \ {"0"} |-> rubric[t]]]
    /\ UNCHANGED <<op, question_id, transcript, transcript_md5, log_prob_raw,
                   model_embedder, sessionVars, STT_MODEL>>

ScoreCall ==
    /\ op = "score"
    /\ result = Pending
    /\ \E draw \in RandomDraws :
          result' = score_with_rubric(question_id, transcript, rubric_data,
                                      model_embedder, draw)
    /\ UNCHANGED <<op, question_id, transcript, transcript_md5, log_prob_raw,
                   rubric_data, model_embedder, sessionVars, STT_MODEL>>


ConfidenceCall ==
    /\ op = "confidence"
    /\ result = Pending
    /\ result' = IF confidence_raises(transcript, log_prob_raw, question_id)
                  THEN Raised("UnicodeEncodeError")
                  ELSE [pending |-> FALSE,
                        raised  |-> FALSE,
                        value   |-> compute_confidence_score(transcript, log_prob_raw,
                                                             question_id, transcript_md5)]
    /\ UNCHANGED <<op, question_id, transcript, transcript_md5, log_prob_raw,
                   rubric_data, model_embedder, sessionVars, STT_MODEL>>

NormalizeCall ==
    /\ op = "normalize"
    /\ result = Pending
    /\ result' = [pending |-> FALSE, raised |-> FALSE, text |-> normalize(transcript)]
    /\ UNCHANGED <<op, question_id, transcript, transcript_md5, log_prob_raw,
                   rubric_data, model_embedder, sessionVars, STT_MODEL>>

Next == ScoreCall \/ ConfidenceCall \/ NormalizeCall

Spec == Init /\ [][Next]_vars

-----------------------------------------------------------------------------
(* The session: the models and the rubric data are loaded once, then pages *)

\* the rubric data files the session may have loaded
SessionRubricDatas ==
    { [q \in {q_key_rubric(i) : i \in 1..TOTAL_QUESTIONS} |->
          [ideal_points |-> ("4" :> indicator_list(2, 2)) @@ ("0" :> <<"No answer was given.">>)]],
      [q \in {q_key_rubric(i) : i \in 1..TOTAL_QUESTIONS} |->
          [ideal_points |-> ("2" :> indicator_list(1, 1)) @@ ("0" :> <<>>)]],
      [q \in {q_key_rubric(i) : i \in 1..TOTAL_QUESTIONS} |->
          [rubric |-> <<"STAR method used, clear resolution.">>]],
      [q \in {q_key_rubric(i) : i \in 2..TOTAL_QUESTIONS} |->
          [ideal_points |-> ("3" :> indicator_list(2, 1))]] }

InitApp ==
    /\ SessionInit
    /\ STT_MODEL \in BOOLEAN
    /\ model_embedder \in { e \in Embedders : e.kind \in {"none", "ok"} }
    /\ rubric_data \in SessionRubricDatas
    /\ op = "none"
    /\ question_id = NoneId
    /\ transcript = NoneStr
    /\ transcript_md5 = 0
    /\ log_prob_raw = NoneFloat
    /\ result = Pending

NextApp ==
    \/ StartInterview
    \/ UploadVideo
    \/ DeleteVideo
    \/ NextQuestion
    \/ FinishAndProcess
    \/ PreviousQuestion
    \/ RenderProcessingPage
    \/ ProcessingBackToHome
    \/ NewInterview
    \/ SummaryBackToHome

SpecApp == InitApp /\ [][NextApp]_vars

-----------------------------------------------------------------------------
(* Properties of score_with_rubric and compute_confidence_score *)

score_returned == op = "score" /\ ~result.pending /\ ~result.raised
score_ended == op = "score" /\ ~result.pending
confidence_returned == op = "confidence" /\ ~result.pending /\ ~result.raised
confidence_ended == op = "confidence" /\ ~result.pending

\* the rubric of the question of the call
the_rubric == rubric_of(rubric_data, question_id)

\* the transcript as the claims classify it: empty or blank, at most two
\* words, or holding a non-answer phrase whatever its case
classified_non_relevant ==
    /\ transcript # NoneStr
    /\ \/ strip(transcript) = <<>>
       \/ Len(split(transcript)) <= 2
       \/ \E na \in non_answers : contains(lower(transcript), na)

\* C1: a transcript classified non-relevant is scored 0 by score_with_rubric and
\* has confidence 0, whatever the question id, rubric data, embedder and
\* acoustic value.  Stated for the questions that have a rubric.
C1_NonRelevantIsZero ==
    classified_non_relevant =>
        /\ (score_ended /\ DOMAIN the_rubric # {}) =>
               (~result.raised /\ result.score = 0)
        /\ confidence_returned => result.value = 0

\* the answer passes the relevance and length gate, its rubric is present and
\* the embedder encodes
voting_case ==
    /\ op = "score"
    /\ transcript # NoneStr
    /\ ~is_non_relevant(strip(transcript))
    /\ Len(split(transcript)) >= MIN_LENGTH_FOR_SCORE
    /\ DOMAIN the_rubric # {}
    /\ model_embedder.kind = "ok"

\* the hits of a tier: its indicators at least 0.40 similar to the answer
hits_of(t) ==
    Cardinality({i \in 1..Len(the_rubric[PointStr[t]]) :
                   model_embedder.sim[the_rubric[PointStr[t]][i]] >= SimThreshold})

\* the tiers of 4..1 with a non-empty indicator list whose hits meet the
\* tier's minimum
qualifying_tiers ==
    {t \in 1..4 : /\ PointStr[t] \in DOMAIN the_rubric
                  /\ the_rubric[PointStr[t]] # <<>>
                  /\ hits_of(t) >= min_hits(t, Len(the_rubric[PointStr[t]]))}

\* C2: past the gate, with a rubric and an embedder, the score is the highest
\* qualifying tier, 1 if none qualifies, for every question id.
C2_HighestQualifyingTier ==
    (voting_case /\ score_ended) =>
        /\ ~result.raised
        /\ \A t \in qualifying_tiers : result.score >= t
        /\ result.score \in qualifying_tiers \cup
                            (IF qualifying_tiers = {} THEN {1} ELSE {})

\* C3: the score is a tier the question's rubric lists with indicators, or 0,
\* or 1.  Stated for the questions that have a rubric.
C3_ScoreIsRubricTierOrFloor ==
    (score_returned /\ DOMAIN the_rubric # {}) =>
        \/ result.score \in {0, 1}
        \/ /\ result.score \in DOMAIN PointStr
           /\ dict_get(the_rubric, PointStr[result.score], <<>>) # <<>>

\* the call reaches the encoding of the answer
answer_encoded ==
    /\ model_embedder.kind # "none"
    /\ DOMAIN the_rubric # {}
    /\ transcript # NoneStr
    /\ ~gated(strip(transcript))

\* the semantic-similarity capability is unavailable: there is no embedder, or
\* an encode call of this evaluation fails (that of the answer, or that of the
\* indicators of a tier the voting reaches)
capability_unavailable ==
    \/ model_embedder.kind = "none"
    \/ answer_encoded /\ model_embedder.kind = "encode_text_raises"
    \/ /\ answer_encoded /\ model_embedder.kind = "encode_list_raises"
       /\ question_id \notin DOMAIN target_scores
       /\ matched_points(the_rubric) # {}

\* C4: with the capability unavailable the call ends in a scoring-unavailable
\* outcome of its own and returns no tier.
C4_UnavailableIsSurfaced ==
    (score_ended /\ capability_unavailable) =>
        (result.raised /\ result.exception = "ScoringUnavailable")

\* the least integer not below a/b, for b > 0
ceil_div(a, b) == (a + b - 1) \div b

\* C5: the minimum of a tier with n indicators is max(1, ceil(0.6 n)) for tier 4,
\* max(1, ceil(0.5 n)) for tier 3 and 1 for tiers 2 and 1.  Stated for the
\* calls whose vote decides the score.
C5_MinHitsIsCeiling ==
    (voting_case /\ score_ended /\ question_id \notin DOMAIN target_scores) =>
        \A t \in matched_points(the_rubric) :
            LET n == Len(the_rubric[PointStr[t]])
            IN  min_hits(t, n) = IF t = 4 THEN Max(1, ceil_div(6 * n, 10))
                                 ELSE IF t = 3 THEN Max(1, ceil_div(5 * n, 10))
                                 ELSE 1

\* C6: the confidence of a transcript and an acoustic value is the same under
\* every question id, none included.
C6_ConfidenceIgnoresQuestionId ==
    confidence_returned =>
        \A q \in QuestionIds :
            ~confidence_raises(transcript, log_prob_raw, q) =>
                compute_confidence_score(transcript, log_prob_raw, q, transcript_md5)
                    = result.value

\* C7: the confidence is an integer from 0 to 100 on every path.
C7_ConfidenceInRange ==
    confidence_returned => result.value \in 0..100

\* the computed path ran and the bounds cut its sum down to 100
C7_Witness ==
    /\ confidence_returned
    /\ ~is_non_relevant(transcript)
    /\ question_id \notin DOMAIN target_confidences
    /\ ~log_prob_raw.isNone
    /\ probability(log_prob_raw) > 10000
    /\ result.value = 100

\* C8: the confidence a result record holds is from 0 to 100.
C8_StoredConfidenceInRange ==
    \A k \in DOMAIN results.records :
        LET stored == results.records[k].confidence_score
        IN  /\ stored.units \in 0..100
            /\ stored.units = 100 => stored.hundredths = 0

\* C9: a returned score is one of 0, 1, 2, 3, 4.
C9_ScoreInRange ==
    score_returned => result.score \in 0..4

\* the voting ran for a question without a demo score and two tiers passed
C9_Witness ==
    /\ score_returned
    /\ voting_case
    /\ question_id \notin DOMAIN target_scores
    /\ Cardinality(qualifying_tiers) >= 2
    /\ result.score = 4

ScoreStr == (0 :> "0") @@ PointStr

\* C10: the justification returned with a tier is an entry of that tier in the
\* question's rubric, when the rubric has one.  Stated for the answers that
\* reach the voting.
C10_JustificationFromRubric ==
    (score_returned /\ voting_case) =>
        LET entry == dict_get(the_rubric, ScoreStr[result.score], <<>>)
        IN  entry # <<>> => \E i \in 1..Len(entry) : entry[i] = result.reason

\* C11: a second call with the same arguments returns what this call returned:
\* the same score and justification from score_with_rubric whatever
\* random.choice draws, the same outcome from compute_confidence_score.
C11_SameArgumentsSameResult ==
    /\ score_ended =>
           \A draw \in RandomDraws :
               score_with_rubric(question_id, transcript, rubric_data,
                                 model_embedder, draw) = result
    /\ confidence_returned =>
           /\ ~confidence_raises(transcript, log_prob_raw, question_id)
           /\ compute_confidence_score(transcript, log_prob_raw, question_id,
                                       transcript_md5) = result.value

NoRubricReason == "No rubric available for this question."

\* C12: with no rubric for the question id the call returns score 3 and the
\* no-rubric justification, whatever the answer and the embedder are.
C12_NoRubricIsThree ==
    (score_ended /\ DOMAIN the_rubric = {}) =>
        /\ ~result.raised
        /\ result.score = 3
        /\ result.reason = NoRubricReason

\* C13: once the processing step has stored its results, every question that
\* has an uploaded answer and no rubric has a record, with score 3 and the
\* no-rubric justification.
C13_NoRubricStillRecorded ==
    ~results.isNone =>
        \A i \in 1..TOTAL_QUESTIONS :
            (/\ q_id_str(i) \in DOMAIN answers
             /\ DOMAIN rubric_of(rubric_data, q_key_rubric(i)) = {}) =>
                /\ q_key_rubric(i) \in DOMAIN results.records
                /\ results.records[q_key_rubric(i)].final_score = 3
                /\ results.records[q_key_rubric(i)].rubric_reason = NoRubricReason

\* the rubric is present, the embedder works and the answer is non-relevant or
\* has fewer than five tokens
gate_case ==
    /\ op = "score"
    /\ transcript # NoneStr
    /\ DOMAIN the_rubric # {}
    /\ model_embedder.kind = "ok"
    /\ \/ is_non_relevant(transcript)
       \/ Len(split(transcript)) < MIN_LENGTH_FOR_SCORE

\* C14: in that case the call returns tier 0 with the first justification of
\* the rubric's tier 0, or "Unanswered" when the rubric has none.
C14_GateReturnsTierZero ==
    (score_ended /\ gate_case) =>
        /\ ~result.raised
        /\ result.score = 0
        /\ result.reason = IF dict_get(the_rubric, "0", <<>>) # <<>>
                           THEN the_rubric["0"][1]
                           ELSE "Unanswered"

\* the answer is past the gate, with a rubric and an embedder that is not None
past_gate ==
    /\ op = "score"
    /\ transcript # NoneStr
    /\ DOMAIN the_rubric # {}
    /\ model_embedder.kind # "none"
    /\ ~is_non_relevant(transcript)
    /\ Len(split(transcript)) >= MIN_LENGTH_FOR_SCORE

\* C15: past the gate the score is never 0, and it is 1 when no tier's hits
\* reach the tier's minimum.
C15_PastGateNeverZero ==
    (score_ended /\ past_gate) =>
        /\ ~result.raised
        /\ result.score # 0
        /\ (\A t \in matched_points(the_rubric) :
                ~passed(the_rubric, model_embedder, t)) => result.score = 1

\* C16: score_with_rubric raises no exception.
C16_ScoreNeverRaises ==
    score_ended => ~result.raised

\* C17: compute_confidence_score raises no exception.
C17_ConfidenceNeverRaises ==
    confidence_ended => ~result.raised

\* the estimate by word count: 70 from 25 words, 50 from 15, 30 from 8, 15
\* from 3, else 0
word_count_bucket(n) ==
    IF n >= 25 THEN 70
    ELSE IF n >= 15 THEN 50
    ELSE IF n >= 8 THEN 30
    ELSE IF n >= 3 THEN 15
    ELSE 0

\* C18: when the calculation fails inside the try block the value returned is
\* the estimate by the transcript's word count.
C18_FallbackIsWordBucket ==
    (/\ confidence_returned
     /\ reaches_calculation(transcript, question_id)
     /\ raises_in_try(transcript, log_prob_raw, question_id)) =>
        result.value = word_count_bucket(Len(split(transcript)))

\* a relevant transcript without filler words
relevant_no_filler(t) ==
    /\ t # NoneStr
    /\ ~is_non_relevant(t)
    /\ filler_count(split(t)) = 0

\* C19: of two relevant transcripts without filler words, with the same
\* acoustic value, the one with more words gets no lower a value.  Stated for
\* calls with the same question id given, so that the adjustment is the same.
C19_MoreWordsNotLower ==
    (confidence_returned /\ question_id # NoneId /\ relevant_no_filler(transcript)) =>
        \A longer \in Transcripts :
            (/\ relevant_no_filler(longer)
             /\ Len(split(longer)) > Len(split(transcript))
             /\ ~confidence_raises(longer, log_prob_raw, question_id)) =>
                compute_confidence_score(longer, log_prob_raw, question_id,
                                         transcript_md5) >= result.value

\* the indicator counts over which the threshold's growth is examined
IndicatorRange == 12

\* C20: for every tier the rubric of the call votes on: hits that meet the
\* minimum of n indicators, grown by one, meet the minimum of n + 1 indicators.
C20_OneMoreMatchKeepsPassed ==
    (voting_case /\ score_ended) =>
        \A t \in matched_points(the_rubric) :
            \A n \in 1..IndicatorRange :
                \A hits \in 0..n :
                    hits >= min_hits(t, n) => hits + 1 >= min_hits(t, n + 1)

\* a voted tier whose hits just meet its minimum, while one more indicator
\* raises the minimum by one
C20_Witness ==
    /\ voting_case /\ score_ended
    /\ \E t \in matched_points(the_rubric) :
          LET n    == Len(the_rubric[PointStr[t]])
              hits == count_matches(the_rubric[PointStr[t]], model_embedder)
          IN  /\ hits = min_hits(t, n)
              /\ min_hits(t, n + 1) = hits + 1

\* the interview question ids
InterviewIds == {"q1", "q2", "q3", "q4", "q5"}

\* a transcript the relevance gate lets through
relevant(t) == t # NoneStr /\ ~is_non_relevant(t)

\* the transcripts of the other call: one of three words and one that cannot
\* be encoded; its acoustic values: none, a log-probability and a probability
ComparedTranscripts ==
    { join(<<w_yes, w_it, w_works>>),
      join(<<w_yes, <<Surrogate>>, w_works, w_team>>) }

ComparedAcoustics == {NoneFloat, Float(-500), Float(1500)}

\* C21: the value returned for an interview question id and a relevant
\* transcript differs from the value returned for every other interview
\* question id, whatever relevant transcript and acoustic value that call has.
C21_InterviewIdsDiffer ==
    (confidence_returned /\ question_id \in InterviewIds /\ relevant(transcript)) =>
        \A other \in ComparedTranscripts :
            relevant(other) =>
                \A q \in InterviewIds \ {question_id}, a \in ComparedAcoustics :
                    /\ ~confidence_raises(other, a, q)
                    /\ compute_confidence_score(other, a, q, transcript_md5)
                           # result.value

\* a call for q3 with a relevant transcript and no acoustic value
C21_Witness ==
    /\ confidence_returned
    /\ question_id = "q3"
    /\ relevant(transcript)
    /\ log_prob_raw.isNone
    /\ result.value = 40

normalize_returned == op = "normalize" /\ ~result.pending

\* C22: normalising the normalised transcript gives it back unchanged.
C22_NormalizeIdempotent ==
    normalize_returned => normalize(result.text) = result.text

\* C23: the value is made of the base, a length bonus that depends on the word
\* count alone, and the filler penalty: two relevant transcripts with the same
\* number of words and the same number of filler words get the same value
\* under the same acoustic value.  Stated for calls with the same question id
\* given.
C23_SameCountsSameValue ==
    (confidence_returned /\ question_id # NoneId /\ relevant(transcript)) =>
        \A other \in Transcripts :
            (/\ relevant(other)
             /\ Len(split(other)) = Len(split(transcript))
             /\ filler_count(split(other)) = filler_count(split(transcript))
             /\ ~confidence_raises(other, log_prob_raw, question_id)) =>
                compute_confidence_score(other, log_prob_raw, question_id,
                                         transcript_md5) = result.value

\* the occurrences, in a list of words, of the entries of the filler
\* vocabulary, an entry of two words occurring where its words follow each other
vocabulary_occurrences(words) ==
    Cardinality({ <<i, e>> \in (1..Len(words)) \X filler_words :
                    LET entry == split(e)
                    IN  /\ i + Len(entry) - 1 <= Len(words)
                        /\ \A j \in 1..Len(entry) : lower(words[i + j - 1]) = entry[j] })

\* C24: the penalty subtracted in a call is min(15, 3 * k), k the number of
\* occurrences of the entries of the filler vocabulary, 'you know' included.
C24_PenaltyCountsEveryEntry ==
    (confidence_returned /\ relevant(transcript)
        /\ question_id \notin DOMAIN target_confidences) =>
        filler_penalty(split(transcript)) =
            Min(15, 3 * vocabulary_occurrences(split(transcript)))

\* a call that reaches the voting loop and whose score comes from it
voting_done ==
    voting_case /\ score_ended /\ question_id \notin DOMAIN target_scores

\* the tiers of 4..1 the rubric does not list, or lists without indicators
skipped_tiers ==
    {t \in 1..4 : dict_get(the_rubric, PointStr[t], <<>>) = <<>>}

\* C25: in the voting a tier without indicators is skipped: it is the score
\* only as the default 1 when no tier qualifies, and the highest qualifying
\* tier is returned whatever tiers without indicators lie above it.
C25_EmptyTierSkipped ==
    voting_done =>
        /\ ~result.raised
        /\ result.score \in skipped_tiers =>
               (result.score = 1 /\ qualifying_tiers = {})
        /\ \A t \in qualifying_tiers :
               (\A above \in (t + 1)..4 : above \notin qualifying_tiers) =>
                   result.score = t

\* a call whose rubric has no indicators for tier 4 and an empty list for
\* tier 3, and returns tier 2
C25_Witness ==
    /\ voting_done
    /\ "4" \notin DOMAIN the_rubric
    /\ "3" \in DOMAIN the_rubric /\ the_rubric["3"] = <<>>
    /\ 2 \in qualifying_tiers
    /\ result.score = 2

\* C26: no step of score_with_rubric or compute_confidence_score changes the
\* rubric data; by induction the rubric data after any sequence of calls is
\* the rubric data as loaded.
C26_RubricDataUnchanged == [][rubric_data' = rubric_data]_vars

\* a call that went through the gate, the lookup of tier 0 and the voting on a
\* rubric that lists tier 0
C26_Witness ==
    /\ voting_case /\ score_ended
    /\ "0" \in DOMAIN the_rubric
    /\ \E t \in 1..4 : t \in qualifying_tiers

-----------------------------------------------------------------------------
(* Properties of the session *)

\* the processing step has stored a non-empty set of records
records_stored == ~results.isNone /\ DOMAIN results.records # {}

\* C27: once records are stored, a step keeps them as they are, unless it is
\* the clearing of the session (New Interview) or the start of a new interview.
C27_StoredRecordsKept ==
    [][records_stored =>
          \/ results' = results
          \/ (NewInterview \/ StartInterview) /\ results' = NoneResults]_vars

\* back on the home page after the summary, with the records still stored
C27_Witness == records_stored /\ page = "home"

answered(i) == q_id_str(i) \in DOMAIN answers

\* C28: on the interview page every question below the current one has an
\* answer, and the processing page is only ever shown with an answer for
\* every question.
C28_ProcessingNeedsEveryAnswer ==
    /\ page = "interview" => \A i \in 1..(current_q - 1) : answered(i)
    /\ page = "processing" => \A i \in 1..TOTAL_QUESTIONS : answered(i)

\* the processing page entered, nothing processed yet
C28_Witness ==
    /\ page = "processing" /\ results.isNone /\ ~cancelled
    /\ \A i \in 1..TOTAL_QUESTIONS : answered(i)

\* C29: the current question number is within 1..TOTAL_QUESTIONS.
C29_CurrentQuestionInRange == current_q \in 1..TOTAL_QUESTIONS

\* on the last question with its answer uploaded: Next is no longer offered
C29_Witness ==
    page = "interview" /\ current_q = TOTAL_QUESTIONS /\ is_ready

\* C30: an exception in the processing loop leaves no results: the page that
\* cancelled has results None and is still the processing page, the summary is
\* only reached with results stored, and results that are stored hold a record
\* for every question the loop processes, never a part of them.
C30_NoPartialResults ==
    /\ (page = "processing" /\ cancelled /\ core_models_loaded) => results.isNone
    /\ cancelled => page = "processing"
    /\ page = "final_summary" => ~results.isNone
    /\ ~results.isNone =>
           DOMAIN results.records =
               {q_key_rubric(i) : i \in {j \in 1..TOTAL_QUESTIONS : processed(j)}}

\* the processing was cancelled by an exception, the models being loaded
C30_Witness ==
    /\ page = "processing" /\ cancelled /\ core_models_loaded
    /\ results.isNone
    /\ \E i \in 1..TOTAL_QUESTIONS : processed(i)

=============================================================================
